---- MODULE Spec2Model ----
(***************************************************************************)
(* A model of bot_menu_gratuit_plus.py: the TTL response cache and         *)
(* http_get_json, the ESPN scoreboard normaliser, the per-sport match      *)
(* pipelines, the enrichment fetchers (recent form, NHL goalies, MLB       *)
(* pitchers), the list keyboard, and the Telegram handlers that keep the   *)
(* per-user navigation state in context.user_data.                         *)
(*                                                                         *)
(* Conventions.  A Python call that can raise is an operator returning     *)
(* [raised |-> BOOLEAN, val |-> ...]; a try/except shows as a test of      *)
(* .raised.  A dict is a function whose DOMAIN is the set of its keys.     *)
(* A missing, null or empty string is "" (all three are falsy in the       *)
(* `x or y` chains of the source).  ISO-8601 start times are natural       *)
(* numbers: the source compares them as strings, lexically, which for one  *)
(* format and zone is the order of the instants.                           *)
(***************************************************************************)
EXTENDS Integers, Sequences, FiniteSets, TLC

VARIABLES
    user_data,  \* context.user_data of one user: a dict
    view,       \* what the last edit_message_text / reply_text showed
    raised,     \* TRUE iff the last handler ended by an exception
    act,        \* the last update handled, with the upstream outcomes it met
    now,        \* the reading of the cache's timer
    CACHE,      \* the links of CACHE: key -> [value, expires]
    stored_at,  \* history: key -> timer reading of the last store under key
    http,       \* the last http_get_json call and how it ended
    arg,        \* the input of the pure function under check
    res         \* its result

vars == <<user_data, view, raised, act, now, CACHE, stored_at, http, arg, res>>

sessionVars == <<user_data, view, raised, act>>
cacheVars == <<now, CACHE, stored_at, http>>
pureVars == <<arg, res>>

(***************************************************************************)
(* Bounds of the model.                                                    *)
(***************************************************************************)
MaxLeagues == 2     \* leagues of a multi-league sport that are modelled
MaxPage == 1        \* largest page index a page|n button carries
MaxEvents == 2      \* events in a scoreboard payload given to the normaliser
MaxSchedule == 6    \* events in a team schedule payload
MaxMatches == 25    \* matches in a list given to kb_matches
MaxViewPage == 3    \* largest page index given to kb_matches
MaxTime == 120      \* the timer stops advancing here
TickLen == 30       \* seconds between two readings of the timer that differ

(***************************************************************************)
(* Program constants.                                                      *)
(***************************************************************************)
ttl == 60           \* TTLCache(maxsize=2048, ttl=60)
page_size == 10     \* kb_matches(..., page_size: int = 10)
form_limit == 5     \* if len(results) >= 5: break

SOCCER_LEAGUES ==
    << <<"eng.1", "Premier League">>, <<"esp.1", "LaLiga">>,
       <<"ita.1", "Serie A">>, <<"fra.1", "Ligue 1">>,
       <<"ger.1", "Bundesliga">>,
       <<"uefa.champions", "UEFA Champions League">>,
       <<"uefa.europa", "UEFA Europa League">>,
       <<"uefa.europa.conf", "UEFA Conference League">>,
       <<"fifa.world", "International (FIFA)">> >>

BASKET_LEAGUES ==
    << <<"nba", "NBA">>, <<"euroleague", "EuroLeague">>,
       <<"france-lnb", "Betclic ELITE (si dispo)">> >>

TENNIS_LEAGUES == << <<"atp", "ATP">>, <<"wta", "WTA">> >>

SPORT_LABELS == {"soccer", "basketball", "tennis", "nhl", "nfl", "mlb"}

(***************************************************************************)
(* Helpers: sequences and dicts.                                           *)
(***************************************************************************)
Min(a, b) == IF a <= b THEN a ELSE b

Take(s, n) == SubSeq(s, 1, Min(n, Len(s)))

\* s[start:end] of Python for 0 <= start <= end
Slice(s, start, end) ==
    IF start >= Len(s) THEN <<>> ELSE SubSeq(s, start + 1, Min(end, Len(s)))

EmptyDict == [k \in {} |-> 0]

\* d[k] = v
Put(d, k, v) == [x \in DOMAIN d \cup {k} |-> IF x = k THEN v ELSE d[x]]

\* d.get(k, default)
Get(d, k, default) == IF k \in DOMAIN d THEN d[k] ELSE default

Ok(v) == [raised |-> FALSE, val |-> v]
Raise(v) == [raised |-> TRUE, val |-> v]

\* The leagues of the multi-league loops that the model runs through.
SoccerLeagues == Take(SOCCER_LEAGUES, MaxLeagues)
TennisLeagues == Take(TENNIS_LEAGUES, MaxLeagues)

(***************************************************************************)
(* The outcome of one `await http_get_json(...)` as its caller sees it:    *)
(* an exception (network failure, raise_for_status, r.json()) or the       *)
(* parsed body.  isdict = FALSE is a body that is valid JSON but no        *)
(* object, on which the caller's .get raises AttributeError.               *)
(***************************************************************************)
FetchRaise == [raises |-> TRUE, isdict |-> TRUE, events |-> <<>>]
FetchBody(isdict, events) ==
    [raises |-> FALSE, isdict |-> isdict, events |-> events]

(***************************************************************************)
(* parse_espn_events_to_matches                                            *)
(*   an event:   [id, date, competitions]                                  *)
(*   a competition: [date, competitors]; date = NoDate: the key is absent  *)
(*   a competitor:  [homeAway, displayName, shortDisplayName, id]          *)
(***************************************************************************)
NoDate == 0 - 1

\* next((c for c in comps if c.get("homeAway") == tag), comps[fallback])
FirstTagged(comps, tag, fallback) ==
    IF \E i \in DOMAIN comps : comps[i].homeAway = tag
    THEN comps[CHOOSE i \in DOMAIN comps :
                 /\ comps[i].homeAway = tag
                 /\ \A j \in DOMAIN comps : comps[j].homeAway = tag => i <= j]
    ELSE comps[fallback]

\* a or b or c
Or3(a, b, c) == IF a # "" THEN a ELSE IF b # "" THEN b ELSE c

MatchOfEvent(sport_key, ev, league_code, league_name) ==
    LET comp == ev.competitions[1]
        comps == comp.competitors
        home_team == FirstTagged(comps, "home", 1)
        away_team == FirstTagged(comps, "away", 2)
    IN [sport |-> sport_key,
        league |-> league_code,
        league_name |-> league_name,
        id |-> ev.id,
        start_time |-> IF comp.date # NoDate THEN comp.date ELSE ev.date,
        home |-> Or3(home_team.displayName, home_team.shortDisplayName, "HOME"),
        away |-> Or3(away_team.displayName, away_team.shortDisplayName, "AWAY"),
        home_id |-> home_team.id,
        away_id |-> away_team.id]

\* The loop with `break` where the source has `continue`: the first event
\* without two competitors ends the batch.
RECURSIVE ParseLoop_break(_, _, _, _)
ParseLoop_break(sport_key, events, league_code, league_name) ==
    IF events = <<>> THEN <<>>
    ELSE LET ev == Head(events)
         IN IF ev.competitions = <<>> THEN <<>>
            ELSE IF Len(ev.competitions[1].competitors) < 2 THEN <<>>
            ELSE <<MatchOfEvent(sport_key, ev, league_code, league_name)>>
                     \o ParseLoop_break(sport_key, Tail(events), league_code,
                                        league_name)

RECURSIVE ParseLoop(_, _, _, _)
ParseLoop(sport_key, events, league_code, league_name) ==
    IF events = <<>> THEN <<>>
    ELSE LET ev == Head(events)
             rest == ParseLoop(sport_key, Tail(events), league_code, league_name)
         IN IF ev.competitions = <<>> THEN rest
            ELSE IF Len(ev.competitions[1].competitors) < 2 THEN rest
            ELSE <<MatchOfEvent(sport_key, ev, league_code, league_name)>> \o rest

parse_espn_events_to_matches(sport_key, scoreboard, league_code, league_name) ==
    IF ~scoreboard.isdict THEN Raise(<<>>)
    ELSE Ok(ParseLoop(sport_key, scoreboard.events, league_code, league_name))

(***************************************************************************)
(* matches.sort(key=lambda x: x.get("start_time", "")): a stable sort.     *)
(***************************************************************************)
RECURSIVE InsertByStart(_, _)
InsertByStart(sorted, m) ==
    IF sorted = <<>> THEN <<m>>
    ELSE IF m.start_time < Head(sorted).start_time THEN <<m>> \o sorted
    ELSE <<Head(sorted)>> \o InsertByStart(Tail(sorted), m)

RECURSIVE SortLoop(_, _)
SortLoop(done, todo) ==
    IF todo = <<>> THEN done
    ELSE SortLoop(InsertByStart(done, Head(todo)), Tail(todo))

\* The list as the leagues delivered it, the sort left out.
SortByStartTime_omitted(matches) == matches

SortByStartTime(matches) == SortLoop(<<>>, matches)

(***************************************************************************)
(* The match pipelines.  `o` is the outcome of the scoreboard request of   *)
(* one league, `resp` maps each league code asked to its outcome.          *)
(***************************************************************************)
\* sb = await espn_scoreboard(...); parse_espn_events_to_matches(key, sb, ...)
LeagueMatches(sport_key, league_code, league_name, o) ==
    IF o.raises THEN Raise(<<>>)
    ELSE parse_espn_events_to_matches(
             sport_key, [isdict |-> o.isdict, events |-> o.events],
             league_code, league_name)

RECURSIVE SoccerLoop(_, _)
SoccerLoop(leagues, resp) ==
    IF leagues = <<>> THEN <<>>
    ELSE LET r == LeagueMatches("soccer", Head(leagues)[1], Head(leagues)[2],
                                resp[Head(leagues)[1]])
         IN (IF r.raised THEN <<>> ELSE r.val) \o SoccerLoop(Tail(leagues), resp)

\* Without the try/except of the loop body: the first failure propagates.
fetch_soccer_matches_unguarded(resp) ==
    IF \E i \in DOMAIN SoccerLeagues :
            LeagueMatches("soccer", SoccerLeagues[i][1], SoccerLeagues[i][2],
                          resp[SoccerLeagues[i][1]]).raised
    THEN Raise(<<>>)
    ELSE Ok(SoccerLoop(SoccerLeagues, resp))

fetch_soccer_matches(resp) == Ok(SoccerLoop(SoccerLeagues, resp))

fetch_basket_matches(resp, league_code, league_name) ==
    LET r == LeagueMatches("basketball", league_code, league_name,
                           resp[league_code])
    IN IF r.raised THEN Ok(<<>>) ELSE r

fetch_nfl_matches(resp) == LeagueMatches("nfl", "nfl", "NFL", resp["nfl"])

fetch_nhl_matches_espn(resp) == LeagueMatches("nhl", "nhl", "NHL", resp["nhl"])

fetch_mlb_matches_espn(resp) == LeagueMatches("mlb", "mlb", "MLB", resp["mlb"])

RECURSIVE TennisLoop(_, _)
TennisLoop(leagues, resp) ==
    IF leagues = <<>> THEN <<>>
    ELSE LET r == LeagueMatches("tennis", Head(leagues)[1], Head(leagues)[2],
                                resp[Head(leagues)[1]])
         IN (IF r.raised THEN <<>> ELSE r.val) \o TennisLoop(Tail(leagues), resp)

fetch_tennis_matches(resp) == Ok(TennisLoop(TennisLeagues, resp))

(***************************************************************************)
(* Enrichment.  A display string is [head, lines].                         *)
(*   a schedule event:  [date, competitions]                               *)
(*   a competition:     [completed, date, competitors]                     *)
(*   a competitor:      [score, abbreviation, displayName, id]             *)
(* score = BadScore is a value int() rejects (a dict, a non-numeric text). *)
(***************************************************************************)
BadScore == 0 - 1

Text(head, lines) == [head |-> head, lines |-> lines]

FormUnavailable == Text("Forme: indisponible", <<>>)
GoaliesUnavailable == Text("Gardiens probables: indisponible", <<>>)
PitchersUnavailable == Text("Lanceurs probables: indisponible", <<>>)
PitchersCaveat ==
    Text("Pitchers MLB: dispo si ID correspond a StatsAPI (sinon ignore).", <<>>)

\* The rendering of a start time; no property here compares two renderings.
fmt_dt(t) == <<"dd/mm HH:MM", t>>

WL(mine, theirs) == IF mine > theirs THEN "W" ELSE IF mine < theirs THEN "L" ELSE "D"

\* The for loop of team_form_espn from `events` on, `results` collected so far.
RECURSIVE FormLoop(_, _, _)
FormLoop(events, team_id, results) ==
    IF events = <<>> THEN Ok(results)
    ELSE LET ev == Head(events)
             rest == Tail(events)
         IN IF ev.competitions = <<>> THEN FormLoop(rest, team_id, results)
            ELSE LET comp == ev.competitions[1]
                     comps == comp.competitors
                 IN IF ~comp.completed THEN FormLoop(rest, team_id, results)
                    ELSE IF Len(comps) < 2 THEN FormLoop(rest, team_id, results)
                    ELSE LET c1 == comps[1]
                             c2 == comps[2]
                             n1 == Or3(c1.abbreviation, c1.displayName, "T1")
                             n2 == Or3(c2.abbreviation, c2.displayName, "T2")
                             date == fmt_dt(IF comp.date # NoDate THEN comp.date
                                            ELSE ev.date)
                             line(wl) == <<wl, n1, c1.score, c2.score, n2, date>>
                         IN IF c1.score = BadScore \/ c2.score = BadScore
                            THEN Raise(results)
                            ELSE IF c1.id # team_id /\ c2.id # team_id
                            THEN FormLoop(rest, team_id, results)
                            ELSE LET wl == IF c1.id = team_id
                                           THEN WL(c1.score, c2.score)
                                           ELSE WL(c2.score, c1.score)
                                     more == Append(results, line(wl))
                                 IN IF Len(more) >= form_limit THEN Ok(more)
                                    ELSE FormLoop(rest, team_id, more)

\* The body of the try of team_form_espn.
team_form_body(team_id, o) ==
    IF o.raises \/ ~o.isdict THEN Raise(FormUnavailable)
    ELSE LET r == FormLoop(o.events, team_id, <<>>)
         IN IF r.raised THEN Raise(FormUnavailable)
            ELSE IF r.val # <<>> THEN Ok(Text("Forme (5 derniers):", r.val))
            ELSE Ok(FormUnavailable)

\* Without the try/except: the failure of the request propagates.
team_form_espn_unguarded(team_id, o) == team_form_body(team_id, o)

team_form_espn(team_id, o) ==
    LET r == team_form_body(team_id, o)
    IN IF r.raised THEN Ok(FormUnavailable) ELSE r

\* o: [raises, isdict, home, away], the playerName of each side or ""
nhl_goalies(o) ==
    IF o.raises \/ ~o.isdict THEN Ok(GoaliesUnavailable)
    ELSE IF o.home = "" /\ o.away = "" THEN Ok(GoaliesUnavailable)
    ELSE Ok(Text("Gardiens probables (si dispo):",
                 (IF o.away # "" THEN << <<"Exterieur", o.away>> >> ELSE <<>>)
                 \o (IF o.home # "" THEN << <<"Domicile", o.home>> >> ELSE <<>>)))

\* o: [raises, isdict, home, away], the fullName of each side or ""
mlb_pitchers(o) ==
    IF o.raises \/ ~o.isdict THEN Ok(PitchersUnavailable)
    ELSE IF o.home = "" /\ o.away = "" THEN Ok(PitchersUnavailable)
    ELSE Ok(Text("Lanceurs probables (si dispo):",
                 (IF o.away # "" THEN << <<"Exterieur", o.away>> >> ELSE <<>>)
                 \o (IF o.home # "" THEN << <<"Domicile", o.home>> >> ELSE <<>>)))

(***************************************************************************)
(* kb_matches: the rows of the page, and the navigation buttons.           *)
(***************************************************************************)
\* `end <= len(matches)` for `end < len(matches)`
kb_matches_inclusive(matches, page, size) ==
    LET start == page * size
        end == start + size
        chunk == Slice(matches, start, end)
    IN [rows |-> [i \in DOMAIN chunk |-> chunk[i].id],
        prev |-> page > 0,
        next |-> end <= Len(matches)]

kb_matches(matches, page, size) ==
    LET start == page * size
        end == start + size
        chunk == Slice(matches, start, end)
    IN [rows |-> [i \in DOMAIN chunk |-> chunk[i].id],
        prev |-> page > 0,
        next |-> end < Len(matches)]

(***************************************************************************)
(* The upstream outcomes the handlers are run against.  The handlers reach *)
(* the providers only through http_get_json; what that call gives (a       *)
(* cached or fresh body, or an exception) is decided by CACHE and the      *)
(* provider, which SpecCache models.  Here each call's outcome is an       *)
(* input, so every content of the cache is covered.                        *)
(***************************************************************************)
Competitor(tag, name, id) ==
    [homeAway |-> tag, displayName |-> name, shortDisplayName |-> "", id |-> id]

Event(id, date) ==
    [id |-> id, date |-> date,
     competitions |-> << [date |-> date,
                          competitors |-> << Competitor("home", "Lyon", "h1"),
                                             Competitor("away", "Nice", "a1") >>] >>]

EvLate == Event("401", 2)
EvEarly == Event("402", 1)

SessionBoards == {<<>>, <<EvLate, EvEarly>>}

BoardOutcomes ==
    {FetchRaise, FetchBody(FALSE, <<>>)}
        \cup {FetchBody(TRUE, b) : b \in SessionBoards}

\* match ids a match|id button can carry: the two above and one of no event
ButtonIds == {"401", "402", "999"}

ScheduleEvent(completed, date, id1, s1, id2, s2) ==
    [date |-> date,
     competitions |-> << [completed |-> completed, date |-> date,
                          competitors |->
                              << [score |-> s1, abbreviation |-> id1,
                                  displayName |-> "", id |-> id1],
                                 [score |-> s2, abbreviation |-> id2,
                                  displayName |-> "", id |-> id2] >>] >>]

FormOutcomes ==
    {FetchRaise, FetchBody(TRUE, <<>>),
     FetchBody(TRUE, <<ScheduleEvent(TRUE, 1, "h1", 2, "a1", 1)>>)}

ExtraRaise == [raises |-> TRUE, isdict |-> TRUE, home |-> "", away |-> ""]
ExtraBody(h, a) == [raises |-> FALSE, isdict |-> TRUE, home |-> h, away |-> a]
ExtraOutcomes == {ExtraRaise, ExtraBody("", ""), ExtraBody("Roy", "")}

NoEnrich == [home |-> FetchRaise, away |-> FetchRaise, extra |-> ExtraRaise]

\* The league codes whose scoreboard the date handler asks for.
PipelineCodes(sport, ud) ==
    IF sport = "soccer" THEN {SoccerLeagues[i][1] : i \in DOMAIN SoccerLeagues}
    ELSE IF sport = "tennis" THEN {TennisLeagues[i][1] : i \in DOMAIN TennisLeagues}
    ELSE IF sport = "basketball" THEN {Get(ud, "basket_league", <<"nba", "NBA">>)[1]}
    ELSE {sport}

(***************************************************************************)
(* Views.                                                                  *)
(***************************************************************************)
View(text, kb) ==
    [text |-> text, kb |-> kb, rows |-> <<>>, prev |-> FALSE, next |-> FALSE,
     form_home |-> FormUnavailable, form_away |-> FormUnavailable,
     extras |-> <<>>, back_page |-> 0]

ListView(matches, page) ==
    LET kb == kb_matches(matches, page, page_size)
    IN [View("Matchs", "kb_matches") EXCEPT
            !.rows = kb.rows, !.prev = kb.prev, !.next = kb.next]

\* `before` is context.user_data as the handler found it.
Act(kind, data, resp, enrich, calls) ==
    [kind |-> kind, data |-> data, resp |-> resp, enrich |-> enrich,
     calls |-> calls, before |-> user_data]

(***************************************************************************)
(* The handlers.  One action is one update handled from its first line to  *)
(* its return or to the exception that ends it.                            *)
(***************************************************************************)
start_cmd ==
    /\ view' = View("Bot menu gratuit pret", "none")
    /\ raised' = FALSE
    /\ act' = Act("start", "", EmptyDict, NoEnrich, 0)
    /\ UNCHANGED user_data

menu_cmd ==
    /\ user_data' = EmptyDict
    /\ view' = View("Choisis un sport", "kb_sports")
    /\ raised' = FALSE
    /\ act' = Act("menu", "", EmptyDict, NoEnrich, 0)

on_noop ==
    /\ raised' = FALSE
    /\ act' = Act("noop", "", EmptyDict, NoEnrich, 0)
    /\ UNCHANGED <<user_data, view>>

on_close ==
    /\ view' = View("Menu ferme", "none")
    /\ raised' = FALSE
    /\ act' = Act("close", "", EmptyDict, NoEnrich, 0)
    /\ UNCHANGED user_data

\* The back branch with the clear() of back|sports left out.
on_back_keep(dest) ==
    /\ user_data' = user_data
    /\ view' = IF dest = "sports"
               THEN View("Choisis un sport", "kb_sports")
               ELSE View("Choisis aujourd'hui ou demain", "kb_dates")
    /\ raised' = FALSE
    /\ act' = Act("back", dest, EmptyDict, NoEnrich, 0)

on_back(dest) ==
    /\ IF dest = "sports"
       THEN /\ user_data' = EmptyDict
            /\ view' = View("Choisis un sport", "kb_sports")
       ELSE /\ user_data' = user_data
            /\ view' = View("Choisis aujourd'hui ou demain", "kb_dates")
    /\ raised' = FALSE
    /\ act' = Act("back", dest, EmptyDict, NoEnrich, 0)

\* The sport branch without context.user_data.clear(): the two keys are
\* written over the state of the earlier selection.
on_sport_merged(sport) ==
    /\ user_data' = Put(Put(user_data, "sport", sport), "page", 0)
    /\ view' = IF sport = "basketball"
               THEN View("Choisis la competition basket", "kb_basket_leagues")
               ELSE View("Choisis aujourd'hui ou demain", "kb_dates")
    /\ raised' = FALSE
    /\ act' = Act("sport", sport, EmptyDict, NoEnrich, 0)

on_sport(sport) ==
    /\ user_data' = Put(Put(EmptyDict, "sport", sport), "page", 0)
    /\ view' = IF sport = "basketball"
               THEN View("Choisis la competition basket", "kb_basket_leagues")
               ELSE View("Choisis aujourd'hui ou demain", "kb_dates")
    /\ raised' = FALSE
    /\ act' = Act("sport", sport, EmptyDict, NoEnrich, 0)

on_bleague(code) ==
    LET name == IF \E i \in DOMAIN BASKET_LEAGUES : BASKET_LEAGUES[i][1] = code
                THEN BASKET_LEAGUES[CHOOSE i \in DOMAIN BASKET_LEAGUES :
                                        BASKET_LEAGUES[i][1] = code][2]
                ELSE code
    IN /\ user_data' = Put(user_data, "basket_league", <<code, name>>)
       /\ view' = View("Basket: choisis aujourd'hui ou demain", "kb_dates")
       /\ raised' = FALSE
       /\ act' = Act("bleague", code, EmptyDict, NoEnrich, 0)

\* The if/elif chain of the date branch that picks the pipeline.
fetch_matches(sport, ud, resp) ==
    IF sport = "soccer" THEN fetch_soccer_matches(resp)
    ELSE IF sport = "basketball"
    THEN LET bl == Get(ud, "basket_league", <<"nba", "NBA">>)
         IN fetch_basket_matches(resp, bl[1], bl[2])
    ELSE IF sport = "tennis" THEN fetch_tennis_matches(resp)
    ELSE IF sport = "nhl" THEN fetch_nhl_matches_espn(resp)
    ELSE IF sport = "nfl" THEN fetch_nfl_matches(resp)
    ELSE IF sport = "mlb" THEN fetch_mlb_matches_espn(resp)
    ELSE Ok(<<>>)

on_date(choice, resp) ==
    LET sport == Get(user_data, "sport", "")
    IN IF sport = ""
       THEN /\ view' = View("Choisis un sport", "kb_sports")
            /\ raised' = FALSE
            /\ act' = Act("date", choice, resp, NoEnrich, 0)
            /\ UNCHANGED user_data
       ELSE LET codes == PipelineCodes(sport, user_data)
                chosen == Put(Put(user_data, "date_choice", choice), "page", 0)
                r == fetch_matches(sport, user_data, resp)
                matches == SortByStartTime(r.val)
            IN /\ act' = Act("date", choice, resp, NoEnrich, Cardinality(codes))
               /\ IF r.raised
                  THEN /\ user_data' = chosen
                       /\ view' = View("Je recupere les matchs", "none")
                       /\ raised' = TRUE
                  ELSE /\ user_data' = Put(chosen, "matches", matches)
                       /\ view' = IF matches = <<>>
                                  THEN View("Aucun match trouve", "menu_sports")
                                  ELSE ListView(matches, 0)
                       /\ raised' = FALSE

\* The page branch reading context.user_data["matches"] by subscript: a
\* session without a list ends the handler by KeyError.
on_page_strict(page) ==
    /\ act' = Act("page", page, EmptyDict, NoEnrich, 0)
    /\ IF "matches" \in DOMAIN user_data
       THEN /\ user_data' = Put(user_data, "page", page)
            /\ view' = ListView(user_data["matches"], page)
            /\ raised' = FALSE
       ELSE /\ raised' = TRUE
            /\ UNCHANGED <<user_data, view>>

\* The page branch storing the window it shows as the list:
\* context.user_data["matches"] = matches[start:end].
on_page_windowed(page) ==
    LET matches == Get(user_data, "matches", <<>>)
        shown == Slice(matches, page * page_size, page * page_size + page_size)
    IN /\ user_data' = Put(Put(user_data, "page", page), "matches", shown)
       /\ view' = ListView(matches, page)
       /\ raised' = FALSE
       /\ act' = Act("page", page, EmptyDict, NoEnrich, 0)

on_page(page) ==
    LET matches == Get(user_data, "matches", <<>>)
    IN /\ user_data' = Put(user_data, "page", page)
       /\ view' = ListView(matches, page)
       /\ raised' = FALSE
       /\ act' = Act("page", page, EmptyDict, NoEnrich, 0)

FormSports == {"soccer", "basketball", "nfl", "nhl", "mlb"}

\* Picks the first match of the list whatever its id.
PickMatch_any(matches, match_id) == IF matches = <<>> THEN 0 ELSE 1

\* next((m for m in matches if m.get("id") == match_id), None): the index
\* of the first match of that id, 0 for None
PickMatch(matches, match_id) ==
    LET hits == {i \in DOMAIN matches : matches[i].id = match_id}
    IN IF hits = {} THEN 0 ELSE CHOOSE i \in hits : \A j \in hits : i <= j

\* The match branch with the MLB caveat appended only when the pitcher
\* lookup gave a name.
on_match_caveat_on_result(match_id, enr) ==
    LET sport == Get(user_data, "sport", "")
        matches == Get(user_data, "matches", <<>>)
        at == PickMatch(matches, match_id)
    IN IF sport = "" \/ at = 0
       THEN /\ enr = NoEnrich
            /\ view' = View("Erreur: match introuvable dans la liste", "kb_sports")
            /\ raised' = FALSE
            /\ act' = Act("match", match_id, EmptyDict, enr, 0)
            /\ UNCHANGED user_data
       ELSE LET picked == matches[at]
                form_home == IF sport \in FormSports
                             THEN team_form_espn(picked.home_id, enr.home)
                             ELSE Ok(FormUnavailable)
                form_away == IF sport \in FormSports
                             THEN team_form_espn(picked.away_id, enr.away)
                             ELSE Ok(FormUnavailable)
                extra == IF sport = "nhl" THEN nhl_goalies(enr.extra)
                         ELSE IF sport = "mlb" THEN mlb_pitchers(enr.extra)
                         ELSE Ok(FormUnavailable)
                extra_lines == IF sport = "nhl" THEN <<extra.val>>
                               ELSE IF sport = "mlb"
                               THEN IF extra.val = PitchersUnavailable
                                    THEN <<extra.val>>
                                    ELSE <<PitchersCaveat, extra.val>>
                               ELSE <<>>
                calls == (IF sport \in FormSports THEN 2 ELSE 0)
                         + (IF sport \in {"nhl", "mlb"} THEN 1 ELSE 0)
            IN /\ sport \notin FormSports
                      => enr.home = FetchRaise /\ enr.away = FetchRaise
               /\ sport \notin {"nhl", "mlb"} => enr.extra = ExtraRaise
               /\ act' = Act("match", match_id, EmptyDict, enr, calls)
               /\ UNCHANGED user_data
               /\ IF form_home.raised \/ form_away.raised \/ extra.raised
                  THEN /\ view' = View("Je prepare la fiche", "none")
                       /\ raised' = TRUE
                  ELSE /\ view' = [View("Fiche", "retour_liste") EXCEPT
                                      !.rows = <<picked.id>>,
                                      !.form_home = form_home.val,
                                      !.form_away = form_away.val,
                                      !.extras = extra_lines,
                                      !.back_page = Get(user_data, "page", 0)]
                       /\ raised' = FALSE

\* The match branch with context.user_data["page"] = 0 added before the
\* page is built: opening a match forgets the page of the list.
on_match_resetting(match_id, enr) ==
    LET sport == Get(user_data, "sport", "")
        matches == Get(user_data, "matches", <<>>)
        at == PickMatch(matches, match_id)
    IN IF sport = "" \/ at = 0
       THEN /\ enr = NoEnrich
            /\ view' = View("Erreur: match introuvable dans la liste", "kb_sports")
            /\ raised' = FALSE
            /\ act' = Act("match", match_id, EmptyDict, enr, 0)
            /\ UNCHANGED user_data
       ELSE LET picked == matches[at]
                form_home == IF sport \in FormSports
                             THEN team_form_espn(picked.home_id, enr.home)
                             ELSE Ok(FormUnavailable)
                form_away == IF sport \in FormSports
                             THEN team_form_espn(picked.away_id, enr.away)
                             ELSE Ok(FormUnavailable)
                extra == IF sport = "nhl" THEN nhl_goalies(enr.extra)
                         ELSE IF sport = "mlb" THEN mlb_pitchers(enr.extra)
                         ELSE Ok(FormUnavailable)
                extra_lines == IF sport = "nhl" THEN <<extra.val>>
                               ELSE IF sport = "mlb" THEN <<PitchersCaveat, extra.val>>
                               ELSE <<>>
                calls == (IF sport \in FormSports THEN 2 ELSE 0)
                         + (IF sport \in {"nhl", "mlb"} THEN 1 ELSE 0)
            IN /\ sport \notin FormSports
                      => enr.home = FetchRaise /\ enr.away = FetchRaise
               /\ sport \notin {"nhl", "mlb"} => enr.extra = ExtraRaise
               /\ act' = Act("match", match_id, EmptyDict, enr, calls)
               /\ user_data' = Put(user_data, "page", 0)
               /\ IF form_home.raised \/ form_away.raised \/ extra.raised
                  THEN /\ view' = View("Je prepare la fiche", "none")
                       /\ raised' = TRUE
                  ELSE /\ view' = [View("Fiche", "retour_liste") EXCEPT
                                      !.rows = <<picked.id>>,
                                      !.form_home = form_home.val,
                                      !.form_away = form_away.val,
                                      !.extras = extra_lines,
                                      !.back_page = Get(user_data, "page", 0)]
                       /\ raised' = FALSE

on_match(match_id, enr) ==
    LET sport == Get(user_data, "sport", "")
        matches == Get(user_data, "matches", <<>>)
        at == PickMatch(matches, match_id)
    IN IF sport = "" \/ at = 0
       THEN /\ enr = NoEnrich
            /\ view' = View("Erreur: match introuvable dans la liste", "kb_sports")
            /\ raised' = FALSE
            /\ act' = Act("match", match_id, EmptyDict, enr, 0)
            /\ UNCHANGED user_data
       ELSE LET picked == matches[at]
                form_home == IF sport \in FormSports
                             THEN team_form_espn(picked.home_id, enr.home)
                             ELSE Ok(FormUnavailable)
                form_away == IF sport \in FormSports
                             THEN team_form_espn(picked.away_id, enr.away)
                             ELSE Ok(FormUnavailable)
                extra == IF sport = "nhl" THEN nhl_goalies(enr.extra)
                         ELSE IF sport = "mlb" THEN mlb_pitchers(enr.extra)
                         ELSE Ok(FormUnavailable)
                extra_lines == IF sport = "nhl" THEN <<extra.val>>
                               ELSE IF sport = "mlb" THEN <<PitchersCaveat, extra.val>>
                               ELSE <<>>
                calls == (IF sport \in FormSports THEN 2 ELSE 0)
                         + (IF sport \in {"nhl", "mlb"} THEN 1 ELSE 0)
            IN /\ sport \notin FormSports
                      => enr.home = FetchRaise /\ enr.away = FetchRaise
               /\ sport \notin {"nhl", "mlb"} => enr.extra = ExtraRaise
               /\ act' = Act("match", match_id, EmptyDict, enr, calls)
               /\ UNCHANGED user_data
               /\ IF form_home.raised \/ form_away.raised \/ extra.raised
                  THEN /\ view' = View("Je prepare la fiche", "none")
                       /\ raised' = TRUE
                  ELSE /\ view' = [View("Fiche", "retour_liste") EXCEPT
                                      !.rows = <<picked.id>>,
                                      !.form_home = form_home.val,
                                      !.form_away = form_away.val,
                                      !.extras = extra_lines,
                                      !.back_page = Get(user_data, "page", 0)]
                       /\ raised' = FALSE

(***************************************************************************)
(* The bot: one user, whose buttons of earlier messages stay clickable, so *)
(* every update can arrive in every state.                                 *)
(***************************************************************************)
ButtonLeagues == {BASKET_LEAGUES[i][1] : i \in DOMAIN BASKET_LEAGUES}

\* One outcome for every scoreboard the date handler asks for in state ud.
Responses(ud) ==
    IF Get(ud, "sport", "") = "" THEN {EmptyDict}
    ELSE [PipelineCodes(ud["sport"], ud) -> BoardOutcomes]

Enrichments == [home : FormOutcomes, away : FormOutcomes, extra : ExtraOutcomes]

(***************************************************************************)
(* CACHE = TTLCache(maxsize=2048, ttl=60).  Its links map a key to the     *)
(* value and to `expires`, the timer reading of the store plus ttl.  The   *)
(* keys of the model are far fewer than maxsize, so nothing is evicted for *)
(* room; an expired link stays until the next store removes it.            *)
(***************************************************************************)
\* key in CACHE, the timer reading t
Contains_inclusive(c, key, t) == key \in DOMAIN c /\ t <= c[key].expires

Contains(c, key, t) == key \in DOMAIN c /\ t < c[key].expires

\* CACHE[key], the timer reading t: the value, or KeyError
GetItem(c, key, t) ==
    IF key \in DOMAIN c /\ t < c[key].expires THEN Ok(c[key].value)
    ELSE Raise("")

\* expire(t): the links that reached their time are removed
Expire(c, t) == [k \in {x \in DOMAIN c : t < c[x].expires} |-> c[k]]

\* CACHE[key] = value, the timer reading t
SetItem(c, key, value, t) ==
    Put(Expire(c, t), key, [value |-> value, expires |-> t + ttl])

\* r.raise_for_status(); data = r.json(); CACHE[key] = data, with the store
\* moved before raise_for_status: the body of an error status is stored.
StoreAfterGet_early(c, key, up, t) ==
    IF up.kind \in {"ok", "status"} THEN SetItem(c, key, up.body, t) ELSE c

\* r.raise_for_status(); data = r.json(); CACHE[key] = data: the links after
\* the GET answered `up` at timer reading t
StoreAfterGet(c, key, up, t) ==
    IF up.kind = "ok" THEN SetItem(c, key, up.body, t) ELSE c

\* key = url + "|" + str(params or {})
Key(url, params) == <<url, "|", params>>

Urls == {"scoreboard", "schedule"}
Bodies == {"b1", "b2"}

\* What the provider does with a GET: no answer, a non-2xx status, a body
\* that is no JSON, or a JSON body.
Upstream ==
    {[kind |-> k, body |-> ""] : k \in {"network", "status", "parse"}}
        \cup {[kind |-> "ok", body |-> b] : b \in Bodies}

NoRequest == [kind |-> "none", body |-> ""]

NoCall ==
    [key |-> Key("", ""), t_in |-> 0, age |-> 0 - 1, hit |-> FALSE,
     requests |-> 0, error |-> "", value |-> "", before |-> EmptyDict]

\* One call of http_get_json.  `d` is the time the call takes between its
\* reading of the timer in `key in CACHE` and its next one: in CACHE[key]
\* on a hit, in CACHE[key] = data after the awaited GET on a miss.  `up` is
\* the provider's answer to the GET, NoRequest when none is sent.
http_get_json(url, params, d, up) ==
    LET key == Key(url, params)
        hit == Contains(CACHE, key, now)
        call == [key |-> key, t_in |-> now,
                 age |-> IF key \in DOMAIN stored_at THEN now - stored_at[key]
                         ELSE 0 - 1,
                 hit |-> hit, requests |-> 0, error |-> "", value |-> "",
                 before |-> CACHE]
    IN /\ now + d <= MaxTime
       /\ now' = now + d
       /\ IF hit
          THEN LET r == GetItem(CACHE, key, now + d)
               IN /\ up = NoRequest
                  /\ UNCHANGED <<CACHE, stored_at>>
                  /\ http' = IF r.raised
                             THEN [call EXCEPT !.error = "KeyError"]
                             ELSE [call EXCEPT !.value = r.val]
          ELSE /\ up \in Upstream
               /\ CACHE' = StoreAfterGet(CACHE, key, up, now + d)
               /\ IF up.kind = "ok"
                  THEN /\ stored_at' = Put(stored_at, key, now + d)
                       /\ http' = [call EXCEPT !.requests = 1, !.value = up.body]
                  ELSE /\ UNCHANGED stored_at
                       /\ http' = [call EXCEPT !.requests = 1, !.error = up.kind]

\* The timer advances between two calls.
Tick ==
    /\ now + TickLen <= MaxTime
    /\ now' = now + TickLen
    /\ UNCHANGED <<CACHE, stored_at, http>>

IdleCache ==
    /\ now = 0
    /\ CACHE = EmptyDict
    /\ stored_at = EmptyDict
    /\ http = NoCall

IdlePure == arg = 0 /\ res = 0

Init ==
    /\ user_data = EmptyDict
    /\ view = View("", "none")
    /\ raised = FALSE
    /\ act = Act("init", "", EmptyDict, NoEnrich, 0)
    /\ IdleCache
    /\ IdlePure

SessionStep == UNCHANGED <<cacheVars, pureVars>>

Next ==
    \/ SessionStep /\ start_cmd
    \/ SessionStep /\ menu_cmd
    \/ SessionStep /\ on_noop
    \/ SessionStep /\ on_close
    \/ SessionStep /\ \E dest \in {"sports", "dates"} : on_back(dest)
    \/ SessionStep /\ \E sport \in SPORT_LABELS : on_sport(sport)
    \/ SessionStep /\ \E code \in ButtonLeagues : on_bleague(code)
    \/ SessionStep /\ \E choice \in {"today", "tomorrow"} :
                          \E resp \in Responses(user_data) : on_date(choice, resp)
    \/ SessionStep /\ \E page \in 0..MaxPage : on_page(page)
    \/ SessionStep /\ \E match_id \in ButtonIds, enr \in Enrichments :
                          on_match(match_id, enr)

Spec == Init /\ [][Next]_vars

IdleSession ==
    /\ user_data = EmptyDict
    /\ view = View("", "none")
    /\ raised = FALSE
    /\ act = Act("init", "", EmptyDict, NoEnrich, 0)

InitCache == IdleSession /\ IdleCache /\ IdlePure

CacheStep == UNCHANGED <<sessionVars, pureVars>>

NextCache ==
    \/ CacheStep /\ Tick
    \/ CacheStep /\ \E url \in Urls, d \in {0, TickLen}, up \in Upstream \cup {NoRequest} :
                        http_get_json(url, "{}", d, up)

SpecCache == InitCache /\ [][NextCache]_vars

(***************************************************************************)
(* The pure functions, each run once on an input drawn in the initial      *)
(* state: arg is the input, res.done tells whether it has run, res.out is  *)
(* what it returned.                                                       *)
(***************************************************************************)
SeqsUpTo(S, n) == UNION {[1..k -> S] : k \in 0..n}

PureStep == UNCHANGED <<sessionVars, cacheVars, arg>>

\* --- parse_espn_events_to_matches -----------------------------------------
\* The shape of an event: whether it has a competition, the homeAway tag of
\* each competitor of it, and which names the competitors carry.
Tags == {"home", "away", ""}
NameKinds == {"both", "short", "none"}

EventShapes ==
    {[competitions |-> 0, tags |-> <<>>, names |-> "none"],
     [competitions |-> 1, tags |-> <<>>, names |-> "none"]}
        \cup {[competitions |-> 1, tags |-> t, names |-> k] :
                 t \in [1..1 -> Tags] \cup [1..2 -> Tags], k \in NameKinds}

\* The i-th competitor of the e-th event of a payload: its id tells both.
ShapedCompetitor(e, i, tag, names) ==
    [homeAway |-> tag,
     displayName |-> IF names = "both" THEN "Long" \o ToString(e) \o ToString(i)
                     ELSE "",
     shortDisplayName |-> IF names = "none" THEN ""
                          ELSE "Sh" \o ToString(e) \o ToString(i),
     id |-> "t" \o ToString(e) \o ToString(i)]

ShapedEvent(e, shape) ==
    [id |-> "e" \o ToString(e), date |-> e,
     competitions |->
         IF shape.competitions = 0 THEN <<>>
         ELSE << [date |-> e,
                  competitors |->
                      [i \in DOMAIN shape.tags |->
                          ShapedCompetitor(e, i, shape.tags[i], shape.names)]] >>]

Scoreboard(shapes) ==
    [isdict |-> TRUE, events |-> [e \in DOMAIN shapes |-> ShapedEvent(e, shapes[e])]]

InitNormalizer ==
    /\ IdleSession /\ IdleCache
    /\ arg \in SeqsUpTo(EventShapes, MaxEvents)
    /\ res = [done |-> FALSE, out |-> Ok(<<>>)]

Normalize ==
    /\ ~res.done
    /\ res' = [done |-> TRUE,
               out |-> parse_espn_events_to_matches(
                           "soccer", Scoreboard(arg), "eng.1", "Premier League")]

NextNormalizer == PureStep /\ Normalize

SpecNormalizer == InitNormalizer /\ [][NextNormalizer]_vars

\* --- team_form_espn --------------------------------------------------------
\* The events of a schedule, for the team "h1": won at home, lost away, in
\* progress, and a completed event of two other teams.
FormKinds == {"won", "lost", "live", "other"}

KindEvent(kind, date) ==
    IF kind = "won" THEN ScheduleEvent(TRUE, date, "h1", 2, "x9", 1)
    ELSE IF kind = "lost" THEN ScheduleEvent(TRUE, date, "x9", 3, "h1", 0)
    ELSE IF kind = "live" THEN ScheduleEvent(FALSE, date, "h1", 1, "x9", 1)
    ELSE ScheduleEvent(TRUE, date, "x8", 1, "x9", 1)

\* The payload lists the events oldest first or newest first; the date of
\* an event is its rank in time.
DateAt(a, i) == IF a.oldest_first THEN i ELSE Len(a.kinds) + 1 - i

Schedule(a) == [i \in DOMAIN a.kinds |-> KindEvent(a.kinds[i], DateAt(a, i))]

InitForm ==
    /\ IdleSession /\ IdleCache
    /\ arg \in [kinds : SeqsUpTo(FormKinds, MaxSchedule), oldest_first : BOOLEAN]
    /\ res = [done |-> FALSE, out |-> FormUnavailable]

Form ==
    /\ ~res.done
    /\ res' = [done |-> TRUE,
               out |-> team_form_espn("h1", FetchBody(TRUE, Schedule(arg))).val]

NextForm == PureStep /\ Form

SpecForm == InitForm /\ [][NextForm]_vars

\* --- kb_matches ------------------------------------------------------------
ListedMatch(i) ==
    [sport |-> "soccer", league |-> "eng.1", league_name |-> "Premier League",
     id |-> "m" \o ToString(i), start_time |-> i, home |-> "Lyon",
     away |-> "Nice", home_id |-> "h1", away_id |-> "a1"]

MatchList(n) == [i \in 1..n |-> ListedMatch(i)]

InitKeyboard ==
    /\ IdleSession /\ IdleCache
    /\ arg \in [n : 0..MaxMatches, page : 0..MaxViewPage]
    /\ res = [done |-> FALSE, out |-> kb_matches(<<>>, 0, page_size)]

Keyboard ==
    /\ ~res.done
    /\ res' = [done |-> TRUE,
               out |-> kb_matches(MatchList(arg.n), arg.page, page_size)]

NextKeyboard == PureStep /\ Keyboard

SpecKeyboard == InitKeyboard /\ [][NextKeyboard]_vars

(***************************************************************************)
(* Properties.                                                             *)
(***************************************************************************)
Count(seq, P(_)) == Cardinality({i \in DOMAIN seq : P(seq[i])})

StoredMatches == Get(user_data, "matches", <<>>)

CurrentSport == Get(user_data, "sport", "")

\* The last update was date|choice with a sport selected.
DateRan == act.kind = "date" /\ act.calls > 0

\* The scoreboard request of a league and the parsing of its body succeeded.
LeagueSucceeded(o) == ~o.raises /\ o.isdict

\* The events of a payload that have a competition of two competitors.
Normalizable(ev) ==
    ev.competitions # <<>> /\ Len(ev.competitions[1].competitors) >= 2

\* C1: for soccer and tennis, whatever subset of the leagues fails, the date
\* handler returns normally and stores, league by league, exactly the
\* matches of the leagues that succeeded: a league that failed has none.
C1_FailingLeagueContributesNothing ==
    (DateRan /\ CurrentSport \in {"soccer", "tennis"}) =>
        /\ ~raised
        /\ "matches" \in DOMAIN user_data
        /\ \A i \in DOMAIN StoredMatches :
              /\ StoredMatches[i].league \in DOMAIN act.resp
              /\ StoredMatches[i].sport = CurrentSport
        /\ \A code \in DOMAIN act.resp : \A id \in {"401", "402"} :
              LET stored(m) == m.league = code /\ m.id = id
                  sent(ev) == ev.id = id /\ Normalizable(ev)
              IN Count(StoredMatches, stored) =
                     IF LeagueSucceeded(act.resp[code])
                     THEN Count(act.resp[code].events, sent) ELSE 0

C1_Witness ==
    /\ DateRan /\ CurrentSport = "soccer" /\ ~raised
    /\ act.resp["eng.1"].raises
    /\ ~act.resp["esp.1"].isdict \/ Len(act.resp["esp.1"].events) = 2
    /\ \E code \in DOMAIN act.resp : act.resp[code].events # <<>>
    /\ StoredMatches # <<>>

\* C2: for basketball, NHL, NFL and MLB, when the one scoreboard request or
\* its normalisation fails, the date handler returns normally, stores the
\* empty list and shows the 'no matches' view.
C2_SingleLeagueFailureIsEmpty ==
    (/\ DateRan
     /\ CurrentSport \in {"basketball", "nhl", "nfl", "mlb"}
     /\ \A code \in DOMAIN act.resp : ~LeagueSucceeded(act.resp[code]))
        => /\ ~raised
           /\ "matches" \in DOMAIN user_data
           /\ user_data["matches"] = <<>>
           /\ view.text = "Aucun match trouve"

\* C3: match|id with an id of no match of the stored list (or no list, or
\* no sport) shows 'match not found' over the sports menu, issues no
\* request and returns normally.
C3_StaleMatchIsNotFound ==
    (/\ act.kind = "match"
     /\ \/ CurrentSport = ""
        \/ \A i \in DOMAIN StoredMatches : StoredMatches[i].id # act.data)
        => /\ view.text = "Erreur: match introuvable dans la liste"
           /\ view.kb = "kb_sports"
           /\ act.calls = 0
           /\ ~raised

C3_Witness ==
    /\ act.kind = "match" /\ act.data = "999"
    /\ CurrentSport # "" /\ Len(StoredMatches) = 2
    /\ view.text = "Erreur: match introuvable dans la liste"

\* C4: in every reachable state the stored match list is sorted
\* non-decreasing by start_time.
C4_StoredListIsSorted ==
    \A i, j \in DOMAIN StoredMatches :
        i < j => StoredMatches[i].start_time <= StoredMatches[j].start_time

C4_Witness ==
    /\ DateRan /\ CurrentSport = "tennis"
    /\ act.resp["atp"].events = <<EvLate, EvEarly>>
    /\ act.resp["wta"].events = <<EvLate, EvEarly>>
    /\ Len(StoredMatches) = 4
    /\ StoredMatches[1].league = "atp" /\ StoredMatches[2].league = "wta"
    /\ StoredMatches[2].start_time < StoredMatches[3].start_time

\* C5: a lookup begun ttl seconds or more after the last store under its
\* key finds no entry and sends the request; and the expiry of every link
\* is the time of its last store plus ttl, whatever was read since.
C5_ExpiredLookupMisses ==
    /\ http.age >= ttl => ~http.hit /\ http.requests = 1
    /\ \A k \in DOMAIN CACHE : CACHE[k].expires = stored_at[k] + ttl

C5_Witness ==
    /\ http.age = ttl
    /\ http.key \in DOMAIN http.before
    /\ http.requests = 1
    /\ http.value # "" /\ http.value # http.before[http.key].value

\* C6: the list view of page p shows matches[10p .. 10p+9] in stored order,
\* 'previous' iff p > 0, 'next' iff (p+1)*10 < len(matches).
C6_PageWindow ==
    res.done =>
        LET first == 10 * arg.page
            shown == IF arg.n <= first THEN 0 ELSE Min(10, arg.n - first)
        IN /\ res.out.rows = [i \in 1..shown |-> "m" \o ToString(first + i)]
           /\ res.out.prev = (arg.page > 0)
           /\ res.out.next = ((arg.page + 1) * 10 < arg.n)

C6_Witness ==
    /\ res.done /\ arg.n = 23 /\ arg.page = 2
    /\ res.out.rows = <<"m21", "m22", "m23">>
    /\ res.out.prev /\ ~res.out.next

\* C7: an event without a competition or with fewer than two competitors
\* gives no match and the other events of the payload are normalised all
\* the same; two competitors without any name give "HOME" and "AWAY"; every
\* match has the nine fields, its id and both names not empty.
ValidAt(e) == arg[e].competitions = 1 /\ Len(arg[e].tags) >= 2

C7_EventsAreIndependent ==
    res.done =>
        LET out == res.out.val
        IN /\ ~res.out.raised
           /\ Len(out) = Cardinality({e \in DOMAIN arg : ValidAt(e)})
           /\ \A e \in DOMAIN arg :
                  ValidAt(e) <=> \E k \in DOMAIN out : out[k].id = "e" \o ToString(e)
           /\ \A k \in DOMAIN out :
                  /\ DOMAIN out[k] = {"sport", "league", "league_name", "id",
                                      "start_time", "home", "away", "home_id",
                                      "away_id"}
                  /\ out[k].id # "" /\ out[k].home # "" /\ out[k].away # ""
                  /\ out[k].start_time \in DOMAIN arg
                  /\ out[k].id = "e" \o ToString(out[k].start_time)
                  /\ arg[out[k].start_time].names = "none"
                         => out[k].home = "HOME" /\ out[k].away = "AWAY"
                  /\ k > 1 => out[k - 1].start_time < out[k].start_time

C7_Witness ==
    /\ res.done /\ Len(arg) = 2
    /\ arg[1].competitions = 1 /\ Len(arg[1].tags) = 1
    /\ ValidAt(2) /\ arg[2].names = "none"
    /\ Len(res.out.val) = 1
    /\ res.out.val[1].id = "e2" /\ res.out.val[1].home = "HOME"

\* C8: the recent form has one line for each of the (at most five) most
\* recent completed events of the team, the most recent first.
UsableDates ==
    {DateAt(arg, i) : i \in {j \in DOMAIN arg.kinds : arg.kinds[j] \in {"won", "lost"}}}

Newest(dates, k) == {d \in dates : Cardinality({x \in dates : x > d}) < k}

LineDate(line) == line[6][2]

C8_FormIsMostRecentFirst ==
    res.done =>
        LET lines == res.out.lines
        IN /\ Len(lines) = Min(5, Cardinality(UsableDates))
           /\ {LineDate(lines[i]) : i \in DOMAIN lines} = Newest(UsableDates, 5)
           /\ \A i, j \in DOMAIN lines :
                  i < j => LineDate(lines[i]) > LineDate(lines[j])

\* C9: for a match of the stored list, match|id ends with the detail page
\* whatever subset of the enrichment requests fails; each string is decided
\* by the outcome of its own request alone.
Opened ==
    /\ act.kind = "match" /\ CurrentSport # ""
    /\ \E i \in DOMAIN StoredMatches : StoredMatches[i].id = act.data

FormHeadFor(o) ==
    IF ~o.raises /\ o.isdict /\ o.events # <<>> THEN "Forme (5 derniers):"
    ELSE "Forme: indisponible"

StartersMissing(o) == o.raises \/ ~o.isdict \/ (o.home = "" /\ o.away = "")

C9_EnrichmentFailuresAreIsolated ==
    Opened =>
        /\ ~raised
        /\ view.text = "Fiche" /\ view.rows = <<act.data>>
        /\ view.form_home.head =
               IF CurrentSport \in FormSports THEN FormHeadFor(act.enrich.home)
               ELSE "Forme: indisponible"
        /\ view.form_away.head =
               IF CurrentSport \in FormSports THEN FormHeadFor(act.enrich.away)
               ELSE "Forme: indisponible"
        /\ CurrentSport = "nhl" =>
               /\ Len(view.extras) = 1
               /\ (view.extras[1] = GoaliesUnavailable)
                      <=> StartersMissing(act.enrich.extra)
        /\ CurrentSport = "mlb" =>
               /\ Len(view.extras) = 2
               /\ (view.extras[2] = PitchersUnavailable)
                      <=> StartersMissing(act.enrich.extra)
        /\ CurrentSport \notin {"nhl", "mlb"} => view.extras = <<>>

C9_Witness ==
    /\ Opened /\ CurrentSport = "nhl" /\ ~raised /\ view.text = "Fiche"
    /\ act.enrich.home.raises /\ act.enrich.extra.raises
    /\ act.enrich.away.events # <<>>
    /\ view.form_home = FormUnavailable
    /\ view.form_away.lines # <<>>
    /\ view.extras = <<GoaliesUnavailable>>

\* C10: a call that fails at the provider (no answer, error status, body
\* that is no JSON) leaves the cache as it was, and that cache has no live
\* entry under the key: the next call for it sends a request again.
UpstreamErrors == {"network", "status", "parse"}

C10_FailuresAreNotCached ==
    http.error \in UpstreamErrors =>
        /\ http.requests = 1
        /\ CACHE = http.before
        /\ ~Contains(CACHE, http.key, now)

C10_Witness ==
    /\ http.error = "status"
    /\ http.key \in DOMAIN CACHE
    /\ CACHE = http.before
    /\ \E k \in DOMAIN CACHE : k # http.key /\ Contains(CACHE, k, now)

(***************************************************************************)
(* Frame and navigation properties of the handlers.                        *)
(***************************************************************************)
SelectionKeys == {"basket_league", "date_choice", "matches"}

\* C11: after a sport|s update, whatever the state it arrived in, the
\* session holds sport = s and page = 0 and nothing else: no basketball
\* league, date choice or match list of an earlier selection remains.
C11_SportReplacesState ==
    act.kind = "sport" =>
        /\ DOMAIN user_data = {"sport", "page"}
        /\ user_data["sport"] = act.data
        /\ user_data["page"] = 0
        /\ DOMAIN user_data \cap SelectionKeys = {}

\* a sport chosen over a session that held another sport, a basketball
\* league, a date choice, a non-empty match list and a page other than 0
C11_Witness ==
    /\ act.kind = "sport"
    /\ SelectionKeys \subseteq DOMAIN act.before
    /\ act.before["sport"] # act.data
    /\ act.before["matches"] # <<>>
    /\ act.before["page"] # 0
    /\ DOMAIN user_data = {"sport", "page"}

ToSportsMenu ==
    \/ act.kind = "menu"
    \/ act.kind = "back" /\ act.data = "sports"

\* C12: after /menu or back|sports, whatever the state the update arrived
\* in, the session is empty (no sport, league, date choice, matches or
\* page), the sports menu is shown, and no upstream request was made.
C12_SportsMenuClearsState ==
    ToSportsMenu =>
        /\ user_data = EmptyDict
        /\ view = View("Choisis un sport", "kb_sports")
        /\ act.calls = 0
        /\ ~raised

\* back|sports pressed on a session that held a sport, a basketball league,
\* a date choice, a match list and a page
C12_Witness ==
    /\ act.kind = "back" /\ act.data = "sports"
    /\ DOMAIN act.before = {"sport", "page"} \cup SelectionKeys
    /\ act.before["matches"] # <<>>
    /\ user_data = EmptyDict

\* No league the date handler asked for yielded a match: each failed or had
\* nothing scheduled.
ZeroMatchesOverall ==
    \A code \in DOMAIN act.resp :
        ~LeagueSucceeded(act.resp[code]) \/ act.resp[code].events = <<>>

\* C13: when no league yields a match (nothing scheduled, or every league
\* failed), the date handler returns normally, stores the empty list with
\* page 0 and shows the 'no matches' view with its back-to-sports button.
C13_ZeroMatchesIsNoMatchesView ==
    (DateRan /\ ZeroMatchesOverall) =>
        /\ ~raised
        /\ "matches" \in DOMAIN user_data
        /\ user_data["matches"] = <<>>
        /\ user_data["page"] = 0
        /\ view = View("Aucun match trouve", "menu_sports")

PageRan == act.kind = "page"

CurrentPage == Get(user_data, "page", 0)

\* C14: a page|n update whose n is out of range for the stored list
\* (n * 10 >= len(matches), the list shorter, empty or absent) returns
\* normally and shows a list view with no match row and no 'next' button.
C14_StalePageIsEmptyWindow ==
    (PageRan /\ CurrentPage * page_size >= Len(StoredMatches)) =>
        /\ ~raised
        /\ view.text = "Matchs" /\ view.kb = "kb_matches"
        /\ view.rows = <<>>
        /\ ~view.next
        /\ view.prev <=> CurrentPage > 0

\* page|1 pressed on a session whose list has fewer than eleven matches
C14_Witness ==
    /\ PageRan /\ ~raised
    /\ CurrentPage = 1
    /\ StoredMatches # <<>>
    /\ view.rows = <<>> /\ view.prev

(***************************************************************************)
(* Properties of http_get_json over the cache.                             *)
(***************************************************************************)
Called == http # NoCall

\* C15: every call sends at most one GET: none when `key in CACHE` found an
\* unexpired entry, and the stored value is then returned; exactly one
\* otherwise; a body that arrived is stored under the key and returned; a
\* failure ends the call with no value and no second GET.
C15_AtMostOneGet ==
    Called =>
        /\ http.requests \in {0, 1}
        /\ http.hit => /\ http.requests = 0
                       /\ http.error = ""
                       /\ http.value = http.before[http.key].value
        /\ ~http.hit => http.requests = 1
        /\ (http.requests = 1 /\ http.error = "") =>
               /\ http.key \in DOMAIN CACHE
               /\ CACHE[http.key].value = http.value
        /\ http.error # "" => http.value = ""

\* C20: a lookup ends in a value or in a miss, never in a lookup error: a
\* call that sends no GET returns the stored value.
C20_LookupIsValueOrMiss ==
    Called =>
        /\ http.error # "KeyError"
        /\ http.requests = 0 => http.value = http.before[http.key].value

\* C16: a match|id update leaves the session as it found it, whether it
\* renders the detail page (with any mix of enrichment failures) or the
\* 'not found' view: sport, league, date choice, page and the match list
\* with every record in it are the same before and after.
C16_OpenMatchIsReadOnly ==
    act.kind = "match" => user_data = act.before

\* a detail page rendered from page 1 of a list, the home form request
\* failing and the away one answering
C16_Witness ==
    /\ act.kind = "match" /\ view.text = "Fiche"
    /\ act.enrich.home = FetchRaise /\ act.enrich.away # FetchRaise
    /\ act.before["page"] = 1 /\ Len(act.before["matches"]) = 2
    /\ user_data = act.before

\* C17: page|n writes page = n and nothing else, and back|dates writes
\* nothing: sport, league, date choice and the stored list are those the
\* update found, and neither sends an upstream request.
C17_NavigationDoesNotRefetch ==
    /\ PageRan =>
           /\ user_data = Put(act.before, "page", act.data)
           /\ act.calls = 0
           /\ ~raised
    /\ (act.kind = "back" /\ act.data = "dates") =>
           /\ user_data = act.before
           /\ act.calls = 0
           /\ ~raised

\* page|1 pressed on page 0 of a fetched basketball list
C17_Witness ==
    /\ PageRan /\ act.data = 1
    /\ DOMAIN act.before = {"sport", "page"} \cup SelectionKeys
    /\ act.before["page"] = 0 /\ act.before["matches"] # <<>>
    /\ user_data["page"] = 1 /\ user_data["matches"] = act.before["matches"]

GoalieHeads == {GoaliesUnavailable.head, "Gardiens probables (si dispo):"}
PitcherHeads == {PitchersUnavailable.head, "Lanceurs probables (si dispo):"}

HasLine(heads) == \E i \in DOMAIN view.extras : view.extras[i].head \in heads

\* C18: on a detail page the goalie lookup is made and its line shown iff
\* the session's sport is nhl, the pitcher lookup iff it is mlb; for mlb
\* the extra lines are the caveat and then the pitcher result, whether the
\* lookup gives a name, gives none or fails.
C18_ExtrasFollowTheSport ==
    Opened =>
        /\ HasLine(GoalieHeads) <=> CurrentSport = "nhl"
        /\ HasLine(PitcherHeads) <=> CurrentSport = "mlb"
        /\ act.calls = (IF CurrentSport \in FormSports THEN 2 ELSE 0)
                          + (IF CurrentSport \in {"nhl", "mlb"} THEN 1 ELSE 0)
        /\ CurrentSport = "nhl" => Len(view.extras) = 1
        /\ CurrentSport = "mlb" =>
               /\ Len(view.extras) = 2
               /\ view.extras[1] = PitchersCaveat
               /\ view.extras[2].head \in PitcherHeads
        /\ CurrentSport \notin {"nhl", "mlb"} => view.extras = <<>>

\* an MLB detail page whose pitcher request failed
C18_Witness ==
    /\ Opened /\ CurrentSport = "mlb"
    /\ act.enrich.extra = ExtraRaise
    /\ view.extras = <<PitchersCaveat, PitchersUnavailable>>

\* The selection a pipeline is run for, as the date branch reads it: the
\* league counts for basketball only.
Selection(ud) ==
    <<Get(ud, "sport", ""),
      IF Get(ud, "sport", "") = "basketball"
      THEN Get(ud, "basket_league", <<"nba", "NBA">>)[1] ELSE "",
      Get(ud, "date_choice", "")>>

\* C19: a stored match list is the pipeline result of the stored selection
\* (sport, basketball league, date choice): an update after which a list is
\* stored and the selection differs from the one it found is a date update
\* that returned normally, and the list it stored is made of matches of
\* the sport and leagues of that selection.
C19_ListMatchesSelection ==
    /\ (/\ "matches" \in DOMAIN user_data
        /\ Selection(user_data) # Selection(act.before))
           => DateRan /\ ~raised
    /\ (DateRan /\ ~raised) =>
           \A i \in DOMAIN StoredMatches :
               /\ StoredMatches[i].sport = CurrentSport
               /\ StoredMatches[i].league \in PipelineCodes(CurrentSport, user_data)

(***************************************************************************)
(* The sides of a normalised match.                                        *)
(***************************************************************************)
\* The position, among the competitors of event e, of the one whose team
\* id the record carries.
SideOf(e, id) == CHOOSE i \in DOMAIN arg[e].tags : id = "t" \o ToString(e) \o ToString(i)

\* C21: for every event of two competitors, whatever homeAway tags they
\* carry (present, absent, duplicated), the home and the away side of the
\* match are two different competitors, a competitor tagged 'home' being
\* the home side and one tagged 'away' the away side when there is one.
C21_SidesAreDistinctCompetitors ==
    res.done =>
        \A k \in DOMAIN res.out.val :
            LET m == res.out.val[k]
                e == m.start_time
                tags == arg[e].tags
            IN /\ m.home_id # m.away_id
               /\ (\E i \in DOMAIN tags : tags[i] = "home")
                      => tags[SideOf(e, m.home_id)] = "home"
               /\ (\E i \in DOMAIN tags : tags[i] = "away")
                      => tags[SideOf(e, m.away_id)] = "away"

(***************************************************************************)
(* The transient views.                                                    *)
(***************************************************************************)
Placeholders == {"Je recupere les matchs", "Je prepare la fiche"}

\* C22: a date or match update never ends on its placeholder: whatever the
\* upstream requests answer, the handler returns normally and the last
\* view it rendered is a final one with buttons (the match list, 'no
\* matches', the detail page, or a menu).
C22_PlaceholderIsReplaced ==
    act.kind \in {"date", "match"} =>
        /\ ~raised
        /\ view.text \notin Placeholders
        /\ view.kb # "none"

====
